---- MODULE Spec2Model ----
(***************************************************************************)
(* Model of possel/commands.py: the textual command dispatcher of the      *)
(* possel IRC client.  Text is modelled as sequences of one-character      *)
(* strings so that startswith, split, lower and prefix building are        *)
(* computed as the code computes them.                                     *)
(***************************************************************************)
EXTENDS Integers, Sequences, FiniteSets, TLC

VARIABLES PREFIX_COMMANDS, lines, calls, disconnected, ensured, servers, interfaces,
          parserBuffer, procs, ndispatch

vars == <<PREFIX_COMMANDS, lines, calls, disconnected, ensured, servers, interfaces,
          parserBuffer, procs, ndispatch>>

(* ---------------------------- bounds ---------------------------------- *)

\* number of dispatch calls made in one behaviour
MaxDispatches == 2

(* ------------------------- text primitives ---------------------------- *)

cmd_join == <<"j", "o", "i", "n">>
cmd_part == <<"p", "a", "r", "t">>
cmd_query == <<"q", "u", "e", "r", "y">>
cmd_me == <<"m", "e">>
cmd_nick == <<"n", "i", "c", "k">>
cmd_connect == <<"c", "o", "n", "n", "e", "c", "t">>
cmd_disconnect == <<"d", "i", "s", "c", "o", "n", "n", "e", "c", "t">>
cmd_help == <<"h", "e", "l", "p">>
line_empty == <<>>
line_slash == <<"/">>
line_me == <<"/", "m", "e">>
line_me_waves == <<"/", "m", "e", " ", "w", "a", "v", "e", "s">>
line_ME_waves_at_you == <<"/", "M", "E", " ", "w", "a", "v", "e", "s", " ", " ", "a", "t", " ", "y", "o", "u", " ">>
line_noslash_part_chan == <<"p", "a", "r", "t", " ", "#", "c", "h", "a", "n">>
line_noslash_hello == <<"h", "e", "l", "l", "o", " ", "t", "h", "e", "r", "e">>
line_bogus == <<"/", "b", "o", "g", "u", "s">>
line_bogus_arg == <<"/", "b", "o", "g", "u", "s", " ", "a", "r", "g">>
line_j == <<"/", "j">>
line_JOIN == <<"/", "J", "O", "I", "N">>
line_join_general == <<"/", "j", "o", "i", "n", " ", "g", "e", "n", "e", "r", "a", "l">>
line_Join_general_pw == <<"/", "J", "o", "i", "n", " ", "g", "e", "n", "e", "r", "a", "l", " ", "p", "w">>
line_join_h == <<"/", "j", "o", "i", "n", " ", "-", "h">>
line_join_a_b_c == <<"/", "j", "o", "i", "n", " ", "a", " ", "b", " ", "c">>
line_part == <<"/", "p", "a", "r", "t">>
line_part_chan == <<"/", "p", "a", "r", "t", " ", "#", "c", "h", "a", "n">>
line_p_x == <<"/", "p", " ", "-", "x">>
line_query_alice == <<"/", "q", "u", "e", "r", "y", " ", "a", "l", "i", "c", "e">>
line_query == <<"/", "q", "u", "e", "r", "y">>
line_nick_bob == <<"/", "n", "i", "c", "k", " ", "b", "o", "b">>
line_NICK == <<"/", "N", "I", "C", "K">>
line_disconnect == <<"/", "d", "i", "s", "c", "o", "n", "n", "e", "c", "t">>
line_disconnect_bye_now == <<"/", "d", "i", "s", "c", "o", "n", "n", "e", "c", "t", " ", "b", "y", "e", " ", "n", "o", "w">>
line_DISCONNECT_h == <<"/", "D", "I", "S", "C", "O", "N", "N", "E", "C", "T", " ", "-", "h">>
line_d_bye == <<"/", "d", " ", "b", "y", "e">>
line_help_join == <<"/", "h", "e", "l", "p", " ", "j", "o", "i", "n">>
line_help == <<"/", "h", "e", "l", "p">>
line_help_bogus == <<"/", "h", "e", "l", "p", " ", "b", "o", "g", "u", "s">>
line_h_nick == <<"/", "h", " ", "n", "i", "c", "k">>
line_HeLp_me == <<"/", "H", "e", "L", "p", " ", "m", "e">>
line_help_bogus_h == <<"/", "h", "e", "l", "p", " ", "b", "o", "g", "u", "s", " ", "-", "h">>
line_connect_host == <<"/", "c", "o", "n", "n", "e", "c", "t", " ", "i", "r", "c", ".", "h", "o", "s", "t">>
line_connect == <<"/", "c", "o", "n", "n", "e", "c", "t">>
line_connect_i_p == <<"/", "c", "o", "n", "n", "e", "c", "t", " ", "-", "i", " ", "-", "p", " ", "6", "6", "6", "7", " ", "i", "r", "c", ".", "h", "o", "s", "t">>
line_connect_ident == <<"/", "c", "o", "n", "n", "e", "c", "t", " ", "-", "n", " ", "n", " ", "-", "r", " ", "r", " ", "-", "u", " ", "u", " ", "i", "r", "c", ".", "h", "o", "s", "t">>
line_connect_host_p == <<"/", "c", "o", "n", "n", "e", "c", "t", " ", "i", "r", "c", ".", "h", "o", "s", "t", " ", "-", "p">>
line_c_help == <<"/", "c", " ", "-", "-", "h", "e", "l", "p">>
Lines ==
    {line_empty, line_slash, line_me, line_me_waves,
     line_ME_waves_at_you, line_noslash_part_chan, line_noslash_hello, line_bogus,
     line_bogus_arg, line_j, line_JOIN, line_join_general,
     line_Join_general_pw, line_join_h, line_join_a_b_c, line_part,
     line_part_chan, line_p_x, line_query_alice, line_query,
     line_nick_bob, line_NICK, line_disconnect, line_disconnect_bye_now,
     line_DISCONNECT_h, line_d_bye, line_help_join, line_help,
     line_help_bogus, line_h_nick, line_HeLp_me, line_help_bogus_h,
     line_connect_host, line_connect, line_connect_i_p, line_connect_ident,
     line_connect_host_p, line_c_help}

Whitespace == {" "}

UpperToLower ==
    [c \in {"A", "B", "C", "D", "E", "F", "G", "H", "I", "J", "K", "L", "M",
            "N", "O", "P", "Q", "R", "S", "T", "U", "V", "W", "X", "Y", "Z"} |->
       CASE c = "A" -> "a" [] c = "B" -> "b" [] c = "C" -> "c" [] c = "D" -> "d"
         [] c = "E" -> "e" [] c = "F" -> "f" [] c = "G" -> "g" [] c = "H" -> "h"
         [] c = "I" -> "i" [] c = "J" -> "j" [] c = "K" -> "k" [] c = "L" -> "l"
         [] c = "M" -> "m" [] c = "N" -> "n" [] c = "O" -> "o" [] c = "P" -> "p"
         [] c = "Q" -> "q" [] c = "R" -> "r" [] c = "S" -> "s" [] c = "T" -> "t"
         [] c = "U" -> "u" [] c = "V" -> "v" [] c = "W" -> "w" [] c = "X" -> "x"
         [] c = "Y" -> "y" [] c = "Z" -> "z"]

\* a mis-implementation that forgets the case normalisation
LowerIdentity(s) == s

\* str.lower()
Lower(s) == [i \in 1..Len(s) |-> IF s[i] \in DOMAIN UpperToLower THEN UpperToLower[s[i]] ELSE s[i]]

\* str.startswith(c) for a one-character c
StartsWith(s, c) == Len(s) > 0 /\ s[1] = c

\* a.startswith(p)
IsPrefix(p, s) == Len(p) <= Len(s) /\ SubSeq(s, 1, Len(p)) = p

Drop(s, n) == SubSeq(s, n + 1, Len(s))

\* index of the first position >= i holding (ws = TRUE) a whitespace
\* character or (ws = FALSE) a non-whitespace one; Len(s) + 1 when none
RECURSIVE Scan(_, _, _)
Scan(s, i, ws) ==
    IF i > Len(s) THEN i
    ELSE IF (s[i] \in Whitespace) = ws THEN i
    ELSE Scan(s, i + 1, ws)

\* str.split(maxsplit=1): at most two fields; the second keeps its inner and
\* trailing whitespace
SplitMax1(s) ==
    LET b1 == Scan(s, 1, FALSE)
        e1 == Scan(s, b1, TRUE)
        b2 == Scan(s, e1, FALSE)
    IN IF b1 > Len(s) THEN <<>>
       ELSE IF b2 > Len(s) THEN <<SubSeq(s, b1, e1 - 1)>>
       ELSE <<SubSeq(s, b1, e1 - 1), SubSeq(s, b2, Len(s))>>

\* str.split(): all whitespace-delimited fields
RECURSIVE SplitFrom(_, _)
SplitFrom(s, i) ==
    LET b == Scan(s, i, FALSE)
        e == Scan(s, b, TRUE)
    IN IF b > Len(s) THEN <<>>
       ELSE <<SubSeq(s, b, e - 1)>> \o SplitFrom(s, e)

Split(s) == SplitFrom(s, 1)

(* --------------------------- the registry ----------------------------- *)

COMMANDS == {cmd_join, cmd_part, cmd_query, cmd_me, cmd_nick, cmd_connect,
             cmd_disconnect, cmd_help}

\* out[prefix].append(string) on a defaultdict(list)
AppendTo(out, prefix, string) ==
    IF prefix \in DOMAIN out
    THEN [out EXCEPT ![prefix] = Append(@, string)]
    ELSE out @@ (prefix :> <<string>>)

\* a mis-implementation that indexes only the full name
AddFullNameOnly(out, string, n) == AppendTo(out, string, string)

\* the inner loop: one entry per non-empty prefix of string
RECURSIVE AddPrefixes(_, _, _)
AddPrefixes(out, string, n) ==
    IF n > Len(string) THEN out
    ELSE AddPrefixes(AppendTo(out, SubSeq(string, 1, n), string), string, n + 1)

RECURSIVE BuildFrom(_, _)
BuildFrom(out, strings) ==
    IF strings = {} THEN out
    ELSE LET string == CHOOSE x \in strings : TRUE
         IN BuildFrom(AddPrefixes(out, string, 1), strings \ {string})

build_prefix_map(strings) == BuildFrom(<<>>, strings)

(* ------------------------ argument parsers ---------------------------- *)

\* Python values bound by a parser
None == [none |-> TRUE]
Str(s) == [str |-> s]
List(l) == [list |-> l]
Bool(b) == [bool |-> b]
IntVal(n) == [int |-> n]

opt_h == <<"-", "h">>
opt_help == <<"-", "-", "h", "e", "l", "p">>
opt_i == <<"-", "i">>
opt_insecure == <<"-", "-", "i", "n", "s", "e", "c", "u", "r", "e">>
opt_p == <<"-", "p">>
opt_port == <<"-", "-", "p", "o", "r", "t">>
opt_n == <<"-", "n">>
opt_nick == <<"-", "-", "n", "i", "c", "k">>
opt_r == <<"-", "r">>
opt_realname == <<"-", "-", "r", "e", "a", "l", "n", "a", "m", "e">>
opt_u == <<"-", "u">>
opt_username == <<"-", "-", "u", "s", "e", "r", "n", "a", "m", "e">>

DefaultPort == 6697

\* add_argument(dest, nargs=..., choices=...): nargs "1" is argparse's
\* default (exactly one), "?" optional-one, "..." argparse.REMAINDER
Positional(dest, nargs, help) ==
    [dest |-> dest, nargs |-> nargs, restricted |-> FALSE, choices |-> {}, help |-> help]

Choice(dest, choices, help) ==
    [dest |-> dest, nargs |-> "1", restricted |-> TRUE, choices |-> choices, help |-> help]

Option(flags, dest, action, default, help) ==
    [flags |-> flags, dest |-> dest, action |-> action, default |-> default, help |-> help]

\* every ArgumentParser adds -h/--help
HelpOption == Option({opt_h, opt_help}, "help", "help", None, "show this help message and exit")

help_parser ==
    [prog |-> "help", description |-> "Display help and usage information for commands",
     usage |-> "usage: help [-h] {COMMANDS}",
     positionals |-> <<Choice("command", COMMANDS, "The command to display help for")>>,
     options |-> <<HelpOption>>]

join_parser ==
    [prog |-> "join", description |-> "Join a new channel",
     usage |-> "usage: join [-h] channel [password]",
     positionals |-> <<Positional("channel", "1", "The channel to join"),
                       Positional("password", "?", "Optional password for the channel")>>,
     options |-> <<HelpOption>>]

part_parser ==
    [prog |-> "part", description |-> "Leave a channel",
     usage |-> "usage: part [-h] [channel]",
     positionals |-> <<Positional("channel", "?", "The channel to leave")>>,
     options |-> <<HelpOption>>]

query_parser ==
    [prog |-> "query", description |-> "Start a private conversation",
     usage |-> "usage: query [-h] who",
     positionals |-> <<Positional("who", "1", "Who to start a conversation with")>>,
     options |-> <<HelpOption>>]

nick_parser ==
    [prog |-> "query", description |-> "Change your nickname on this server",
     usage |-> "usage: query [-h] new_nick",
     positionals |-> <<Positional("new_nick", "1", "What to change your nick to")>>,
     options |-> <<HelpOption>>]

me_parser ==
    [prog |-> "me", description |-> "Do a thing!",
     usage |-> "usage: me [-h] ...",
     positionals |-> <<Positional("action", "...", "The thing to do")>>,
     options |-> <<HelpOption>>]

connect_parser ==
    [prog |-> "connect", description |-> "Connect to a new IRC server",
     usage |-> "usage: connect [-h] [-i] [-p PORT] [-n NICK] [-r REALNAME] [-u USERNAME] host",
     positionals |-> <<Positional("host", "1", "The server to connect to")>>,
     options |-> <<HelpOption,
                   Option({opt_i, opt_insecure}, "insecure", "store_true", Bool(FALSE),
                          "Disable ssl/tls for this server"),
                   Option({opt_p, opt_port}, "port", "store", IntVal(DefaultPort),
                          "The port to connect on"),
                   Option({opt_n, opt_nick}, "nick", "store", None,
                          "The nick to use on this server"),
                   Option({opt_r, opt_realname}, "realname", "store", None,
                          "The real name to use on this server"),
                   Option({opt_u, opt_username}, "username", "store", None,
                          "The username to use on this server")>>]

disconnect_parser ==
    [prog |-> "disconnect", description |-> "Disconnect from the current IRC server",
     usage |-> "usage: disconnect [-h] ...",
     positionals |-> <<Positional("message", "...", "The quit message")>>,
     options |-> <<HelpOption>>]

ParserNames == {"help_parser", "join_parser", "part_parser", "query_parser", "nick_parser",
                "me_parser", "connect_parser", "disconnect_parser"}

\* the module-level parser objects, by name
Parsers ==
    [n \in ParserNames |->
        CASE n = "help_parser" -> help_parser
          [] n = "join_parser" -> join_parser
          [] n = "part_parser" -> part_parser
          [] n = "query_parser" -> query_parser
          [] n = "nick_parser" -> nick_parser
          [] n = "me_parser" -> me_parser
          [] n = "connect_parser" -> connect_parser
          [] n = "disconnect_parser" -> disconnect_parser]

Digits == {"0", "1", "2", "3", "4", "5", "6", "7", "8", "9"}

IsNegativeNumber(t) == Len(t) > 1 /\ t[1] = "-" /\ \A k \in 2..Len(t) : t[k] \in Digits

OptionsFor(P, t) == {k \in 1..Len(P.options) : t \in P.options[k].flags}

\* argparse's classification of one argument string: "O" an option string,
\* "A" a positional value.  Abbreviated long options, "--opt=value" and
\* "-pVALUE" spellings are outside the input lines of this model.
Class(P, t) ==
    IF ~StartsWith(t, "-") THEN "A"
    ELSE IF OptionsFor(P, t) # {} THEN "O"
    ELSE IF Len(t) = 1 THEN "A"
    ELSE IF IsNegativeNumber(t) THEN "A"
    ELSE "O"

Defaults(P) ==
    LET pd == {P.positionals[k].dest : k \in 1..Len(P.positionals)}
        od == {P.options[k].dest : k \in 1..Len(P.options)} \ {"help"}
    IN [d \in pd \cup od |->
          IF d \in pd THEN None
          ELSE P.options[CHOOSE k \in 1..Len(P.options) : P.options[k].dest = d].default]

\* take_action for a positional: the choices check, then setattr
Bind(s, a, value, consumed) ==
    IF a.restricted /\ value.str \notin a.choices
    THEN [s EXCEPT !.status = "FAILED"]
    ELSE [s EXCEPT !.ns[a.dest] = value, !.i = s.i + consumed, !.npos = s.npos + 1]

\* consume_positionals: bind as many of the remaining positionals as match
\* the argument strings at the cursor
RECURSIVE ConsumePositionals(_, _, _)
ConsumePositionals(P, ts, s) ==
    IF s.status # "run" \/ s.npos >= Len(P.positionals) THEN s
    ELSE LET a == P.positionals[s.npos + 1]
             hasA == s.i <= Len(ts) /\ Class(P, ts[s.i]) = "A"
         IN CASE a.nargs = "1" ->
                   IF hasA THEN ConsumePositionals(P, ts, Bind(s, a, Str(ts[s.i]), 1)) ELSE s
              [] a.nargs = "?" ->
                   IF hasA THEN ConsumePositionals(P, ts, Bind(s, a, Str(ts[s.i]), 1))
                   ELSE ConsumePositionals(P, ts, [s EXCEPT !.npos = s.npos + 1])
              [] a.nargs = "..." ->
                   [s EXCEPT !.ns[a.dest] = List(Drop(ts, s.i - 1)),
                             !.i = Len(ts) + 1, !.npos = s.npos + 1]

\* consume_optional: the argument string at the cursor is an option string
ConsumeOptional(P, ts, s) ==
    LET ks == OptionsFor(P, ts[s.i])
    IN IF ks = {} THEN [s EXCEPT !.extras = TRUE, !.i = s.i + 1]
       ELSE LET o == P.options[CHOOSE k \in ks : TRUE]
            IN CASE o.action = "help" -> [s EXCEPT !.status = "HELP_SHOWN"]
                 [] o.action = "store_true" ->
                      [s EXCEPT !.ns[o.dest] = Bool(TRUE), !.i = s.i + 1]
                 [] o.action = "store" ->
                      IF s.i + 1 <= Len(ts) /\ Class(P, ts[s.i + 1]) = "A"
                      THEN [s EXCEPT !.ns[o.dest] = Str(ts[s.i + 1]), !.i = s.i + 2]
                      ELSE [s EXCEPT !.status = "FAILED"]

Min(S) == CHOOSE m \in S : \A k \in S : m <= k

\* the main loop of argparse's _parse_known_args
RECURSIVE ParseLoop(_, _, _)
ParseLoop(P, ts, s) ==
    IF s.status # "run" THEN s
    ELSE LET opts == {k \in s.i..Len(ts) : Class(P, ts[k]) = "O"}
         IN IF opts = {} THEN s
            ELSE LET next == Min(opts)
                     s1 == IF s.i # next THEN ConsumePositionals(P, ts, s) ELSE s
                 IN IF s1.status # "run" THEN s1
                    ELSE IF s1.i > s.i THEN ParseLoop(P, ts, s1)
                    ELSE LET s2 == IF s1.i < next
                                   THEN [s1 EXCEPT !.extras = TRUE, !.i = next]
                                   ELSE s1
                         IN ParseLoop(P, ts, ConsumeOptional(P, ts, s2))

\* ArgumentParser.parse_args on a list of argument strings: the terminal
\* state and, on SUCCESS, the namespace
ParseArgs(P, ts) ==
    LET s0 == [i |-> 1, npos |-> 0, ns |-> Defaults(P), extras |-> FALSE, status |-> "run"]
        s1 == ParseLoop(P, ts, s0)
        s2 == ConsumePositionals(P, ts, s1)
        missing == \E k \in (s2.npos + 1)..Len(P.positionals) : P.positionals[k].nargs # "?"
    IN IF s2.status # "run" THEN [status |-> s2.status, ns |-> s2.ns]
       ELSE IF missing \/ s2.extras \/ s2.i <= Len(ts) THEN [status |-> "FAILED", ns |-> s2.ns]
       ELSE [status |-> "SUCCESS", ns |-> s2.ns]

\* the content of one notice line: a fixed text and the user text formatted
\* into it
Content(text, arg) == [text |-> text, arg |-> arg]

Separator == Content("= * 80", <<>>)

\* format_usage().splitlines()
UsageMessage(P) == <<Content(P.usage, <<>>)>>

\* format_help().splitlines()
HelpMessage(P) ==
    <<Content(P.usage, <<>>), Content("", <<>>), Content(P.description, <<>>), Content("", <<>>),
      Content("positional arguments:", <<>>)>>
    \o [k \in 1..Len(P.positionals) |-> Content(P.positionals[k].help, <<>>)]
    \o <<Content("", <<>>), Content("options:", <<>>)>>
    \o [k \in 1..Len(P.options) |-> Content(P.options[k].help, <<>>)]

(* ------------------- the store and the interfaces --------------------- *)

SYSNICK == "SYSNICK"

\* buffer.server of a system buffer (None)
NoServer == 0

name_general == <<"#", "g", "e", "n", "e", "r", "a", "l">>
name_bob == <<"b", "o", "b">>
name_system == <<"S", "y", "s", "t", "e", "m">>

\* the buffers of the store: two on real servers, one system buffer
Buffers ==
    <<[name |-> name_general, server |-> 1],
      [name |-> name_bob, server |-> 2],
      [name |-> name_system, server |-> NoServer]>>

BufferIds == DOMAIN Buffers

InitialServers == {Buffers[b].server : b \in BufferIds} \ {NoServer}

\* server.user of the servers that exist at construction
Users ==
    [s \in InitialServers |->
        IF s = 1 THEN [nick |-> <<"a", "n", "n">>, realname |-> <<"A">>, username |-> <<"a">>]
        ELSE [nick |-> <<"z", "e", "d">>, realname |-> <<"Z">>, username |-> <<"z">>]]

\* model.create_line(buffer=, content=, kind='other', nick=model.SYSNICK)
Line(buffer, content) == [buffer |-> buffer, content |-> content, kind |-> "other", nick |-> SYSNICK]

(* ---------------- the steps of one dispatch call ---------------------- *)

\* bookkeeping of the call: which handler was looked up and called, how its
\* parse ended, whether the handler body was entered
Invoke(handler) == [op |-> "invoke", handler |-> handler]
Parsed(status) == [op |-> "parse", status |-> status]
Body(handler) == [op |-> "body", handler |-> handler]
Markers == {"invoke", "parse", "body"}

\* the state-changing statements
SetBuf(parser) == [op |-> "setbuf", parser |-> parser]
PrintMessage(parser, message) == [op |-> "print", parser |-> parser, message |-> message]
CreateLine(buffer, content) == [op |-> "create_line", buffer |-> buffer, content |-> content]
Call(server, method, args) == [op |-> "call", server |-> server, method |-> method, args |-> args]
MarkDisconnected(server) == [op |-> "disconnect", server |-> server]
EnsureBuffer(name, server) == [op |-> "ensure_buffer", name |-> name, server |-> server]
CreateServer(kwargs) == [op |-> "connect", kwargs |-> kwargs]
Raise(exc) == [op |-> "raise", exc |-> exc]

\* Dispatcher.help; getattr(self, None) is a TypeError
help(b, args) ==
    LET parser == CHOOSE n \in ParserNames :
                     \/ args.command.str = cmd_help /\ n = "help_parser"
                     \/ args.command.str = cmd_join /\ n = "join_parser"
                     \/ args.command.str = cmd_part /\ n = "part_parser"
                     \/ args.command.str = cmd_query /\ n = "query_parser"
                     \/ args.command.str = cmd_me /\ n = "me_parser"
                     \/ args.command.str = cmd_nick /\ n = "nick_parser"
                     \/ args.command.str = cmd_connect /\ n = "connect_parser"
                     \/ args.command.str = cmd_disconnect /\ n = "disconnect_parser"
    IN IF args.command = None THEN <<Raise("TypeError")>>
       ELSE <<SetBuf(parser), PrintMessage(parser, HelpMessage(Parsers[parser]))>>

\* Dispatcher.join
join(b, args) ==
    LET channel == IF args.channel = None THEN Str(Buffers[b].name) ELSE args.channel
    IN IF Buffers[b].server = NoServer THEN <<Raise("AttributeError")>>
       ELSE <<Call(Buffers[b].server, "join", <<channel, args.password>>)>>

\* Dispatcher.part
part(b, args) ==
    LET channel == IF args.channel = None THEN Str(Buffers[b].name) ELSE args.channel
    IN IF Buffers[b].server = NoServer THEN <<Raise("AttributeError")>>
       ELSE <<Call(Buffers[b].server, "part", <<channel>>)>>

\* Dispatcher.query
query(b, args) == <<EnsureBuffer(args.who, Buffers[b].server)>>

\* Dispatcher.me: not wrapped by a parser
me(b, rest) ==
    IF rest = <<>> THEN <<Raise("IndexError")>>
    ELSE IF Buffers[b].server = NoServer THEN <<Raise("AttributeError")>>
    ELSE <<Call(Buffers[b].server, "send_message",
                <<Str(Buffers[b].name),
                  Str(<<"^A", "A", "C", "T", "I", "O", "N", " ">> \o rest[1] \o <<"^A">>)>>)>>

\* Dispatcher.nick
nick(b, args) ==
    IF Buffers[b].server = NoServer THEN <<Raise("AttributeError")>>
    ELSE <<Call(Buffers[b].server, "change_nick", <<args.new_nick>>)>>

\* Dispatcher.connect
connect(b, args) ==
    LET needUser == None \in {args.nick, args.realname, args.username}
        user == Users[Buffers[b].server]
        or(given, fallback) == IF given = None THEN Str(fallback) ELSE given
    IN IF needUser /\ Buffers[b].server = NoServer THEN <<Raise("AttributeError")>>
       ELSE <<CreateServer([host |-> args.host,
                            port |-> args.port,
                            secure |-> Bool(~args.insecure.bool),
                            nick |-> IF needUser THEN or(args.nick, user.nick) ELSE args.nick,
                            realname |-> IF needUser THEN or(args.realname, user.realname)
                                         ELSE args.realname,
                            username |-> IF needUser THEN or(args.username, user.username)
                                         ELSE args.username])>>

quit_literal == <<"q", "u", "i", "t">>

\* Dispatcher.disconnect; the else branch names an unbound variable
disconnect(b, args) ==
    IF Buffers[b].server # NoServer
    THEN <<CreateLine(b, Content("*** DISCONNECTED ***", <<>>)),
           MarkDisconnected(Buffers[b].server),
           Call(Buffers[b].server, "quit", <<Str(quit_literal)>>)>>
    ELSE <<Raise("NameError")>>

\* the methods of Dispatcher that dispatch can look up by command name
HandlerNames == {cmd_help, cmd_join, cmd_part, cmd_query, cmd_me, cmd_nick, cmd_connect,
                 cmd_disconnect}

\* the commands whose handler is wrapped by <parser>.decorate
Decorated == HandlerNames \ {cmd_me}

ParserOf(handler) ==
    CASE handler = cmd_help -> "help_parser"
      [] handler = cmd_join -> "join_parser"
      [] handler = cmd_part -> "part_parser"
      [] handler = cmd_query -> "query_parser"
      [] handler = cmd_nick -> "nick_parser"
      [] handler = cmd_connect -> "connect_parser"
      [] handler = cmd_disconnect -> "disconnect_parser"

function(handler, b, args) ==
    CASE handler = cmd_help -> help(b, args)
      [] handler = cmd_join -> join(b, args)
      [] handler = cmd_part -> part(b, args)
      [] handler = cmd_query -> query(b, args)
      [] handler = cmd_nick -> nick(b, args)
      [] handler = cmd_connect -> connect(b, args)
      [] handler = cmd_disconnect -> disconnect(b, args)

\* a wrapper that runs the handler body whatever the parse result
decorate_unconditional(handler, b, args_or_empty_list) ==
    LET pn == ParserOf(handler)
        split_args == IF args_or_empty_list = <<>> THEN <<>> ELSE Split(args_or_empty_list[1])
        r == ParseArgs(Parsers[pn], split_args)
    IN <<SetBuf(pn), Parsed(r.status)>>
       \o (IF r.status = "HELP_SHOWN" THEN <<PrintMessage(pn, HelpMessage(Parsers[pn]))>>
           ELSE IF r.status = "FAILED" THEN <<PrintMessage(pn, UsageMessage(Parsers[pn]))>>
           ELSE <<>>)
       \o <<Body(handler)>> \o function(handler, b, r.ns)

\* CommandParser.decorate / inner_function with CommandParser.parse_args,
\* _print_message and exit: the ValueError raised by exit is swallowed
decorate(handler, b, args_or_empty_list) ==
    LET pn == ParserOf(handler)
        split_args == IF args_or_empty_list = <<>> THEN <<>> ELSE Split(args_or_empty_list[1])
        r == ParseArgs(Parsers[pn], split_args)
    IN <<SetBuf(pn), Parsed(r.status)>>
       \o CASE r.status = "SUCCESS" -> <<Body(handler)>> \o function(handler, b, r.ns)
            [] r.status = "HELP_SHOWN" -> <<PrintMessage(pn, HelpMessage(Parsers[pn]))>>
            [] r.status = "FAILED" -> <<PrintMessage(pn, UsageMessage(Parsers[pn]))>>

\* getattr(self, actual_command)(buffer, rest)
CallHandler(actual_command, b, rest) ==
    IF actual_command \notin HandlerNames THEN <<Raise("AttributeError")>>
    ELSE <<Invoke(actual_command)>>
         \o (IF actual_command = cmd_me THEN <<Body(cmd_me)>> \o me(b, rest)
             ELSE decorate(actual_command, b, rest))

\* Dispatcher.dispatch, as the sequence of steps it goes on to take
dispatch(prefix_commands, buffer_id, line) ==
    LET line1 == IF StartsWith(line, "/") THEN Tail(line) ELSE line
        fields == SplitMax1(line1)
    IN IF fields = <<>> THEN <<Raise("ValueError")>>
       ELSE LET command == Lower(fields[1])
                rest == Tail(fields)
            IN IF command \in DOMAIN prefix_commands
               THEN IF Len(prefix_commands[command]) = 1
                    THEN CallHandler(prefix_commands[command][1], buffer_id, rest)
                    ELSE <<CreateLine(buffer_id, Content("ambiguous command \"{}\"", command))>>
               ELSE <<>>

(* --------------------- executing the steps ---------------------------- *)

IdleProc ==
    [status |-> "idle", exc |-> "", buf |-> 0, line |-> <<>>, todo |-> <<>>,
     invoked |-> <<>>, bodies |-> <<>>, parse |-> "none",
     created |-> <<>>, called |-> <<>>, marked |-> {}, mutated |-> FALSE]

\* the effect of one step on the store, the interfaces and the call's record
Apply(st, op) ==
    CASE op.op = "invoke" -> [st EXCEPT !.proc.invoked = Append(@, op.handler)]
      [] op.op = "parse" -> [st EXCEPT !.proc.parse = op.status]
      [] op.op = "body" -> [st EXCEPT !.proc.bodies = Append(@, op.handler)]
      [] op.op = "setbuf" -> [st EXCEPT !.parserBuffer[op.parser] = st.proc.buf]
      [] op.op = "print" ->
           LET buffer == st.parserBuffer[op.parser]
               new == <<Line(buffer, Separator)>>
                      \o [k \in 1..Len(op.message) |-> Line(buffer, op.message[k])]
                      \o <<Line(buffer, Separator)>>
           IN [st EXCEPT !.lines = @ \o new, !.proc.created = @ \o new]
      [] op.op = "create_line" ->
           [st EXCEPT !.lines = Append(@, Line(op.buffer, op.content)),
                      !.proc.created = Append(@, Line(op.buffer, op.content))]
      [] op.op = "call" ->
           LET c == [server |-> op.server, method |-> op.method, args |-> op.args]
           IN IF op.server \in st.interfaces
              THEN [st EXCEPT !.calls = Append(@, c), !.proc.called = Append(@, c)]
              ELSE [st EXCEPT !.proc.status = "raised", !.proc.exc = "KeyError",
                              !.proc.todo = <<>>]
      [] op.op = "disconnect" ->
           [st EXCEPT !.disconnected = @ \cup {op.server}, !.proc.marked = @ \cup {op.server}]
      [] op.op = "ensure_buffer" ->
           [st EXCEPT !.ensured = @ \cup {[name |-> op.name, server |-> op.server]},
                      !.proc.mutated = TRUE]
      [] op.op = "connect" ->
           LET id == Cardinality(InitialServers) + Len(st.servers) + 1
               c == [server |-> id, method |-> "IRCClient.connect", args |-> <<>>]
           IN [st EXCEPT !.servers = Append(@, op.kwargs),
                         !.interfaces = @ \cup {id},
                         !.calls = Append(@, c), !.proc.called = Append(@, c),
                         !.proc.mutated = TRUE]
      [] op.op = "raise" ->
           [st EXCEPT !.proc.status = "raised", !.proc.exc = op.exc, !.proc.todo = <<>>]

\* take the first pending step; the call returns when none is left
ExecHead(st) ==
    LET op == Head(st.proc.todo)
        st1 == Apply([st EXCEPT !.proc.todo = Tail(@)], op)
    IN IF st1.proc.status = "running" /\ st1.proc.todo = <<>>
       THEN [st1 EXCEPT !.proc.status = "returned"]
       ELSE st1

\* the whole call, start to finish
RECURSIVE Run(_)
Run(st) == IF st.proc.status # "running" THEN st ELSE Run(ExecHead(st))

\* one state-changing statement, with the bookkeeping that precedes it
RECURSIVE RunStep(_)
RunStep(st) ==
    IF st.proc.status # "running" THEN st
    ELSE IF Head(st.proc.todo).op \in Markers THEN RunStep(ExecHead(st))
    ELSE ExecHead(st)

\* entering dispatch(buffer_id, line): lines 117-125 decide the steps
Enter(prefix_commands, buffer_id, line) ==
    LET todo == dispatch(prefix_commands, buffer_id, line)
    IN [IdleProc EXCEPT !.status = IF todo = <<>> THEN "returned" ELSE "running",
                        !.buf = buffer_id, !.line = line, !.todo = todo]

State(p) ==
    [lines |-> lines, calls |-> calls, disconnected |-> disconnected, ensured |-> ensured,
     servers |-> servers, interfaces |-> interfaces, parserBuffer |-> parserBuffer,
     proc |-> p]

Commit(p, st) ==
    /\ lines' = st.lines
    /\ calls' = st.calls
    /\ disconnected' = st.disconnected
    /\ ensured' = st.ensured
    /\ servers' = st.servers
    /\ interfaces' = st.interfaces
    /\ parserBuffer' = st.parserBuffer
    /\ procs' = [procs EXCEPT ![p] = st.proc]

(* ------------------------- specifications ----------------------------- *)

Procs == {1, 2}

\* the parsers' buffer attribute is unset until the first parse_args
Unset == 0

InitStore ==
    /\ lines = <<>>
    /\ calls = <<>>
    /\ disconnected = {}
    /\ ensured = {}
    /\ servers = <<>>
    /\ interfaces = InitialServers
    /\ parserBuffer = [n \in ParserNames |-> Unset]
    /\ procs = [p \in Procs |-> IdleProc]
    /\ ndispatch = 0

\* PREFIX_COMMANDS is built once, when the module is imported
Init == PREFIX_COMMANDS = build_prefix_map(COMMANDS) /\ InitStore

\* one synchronous dispatch call, run to completion
Dispatch(buffer_id, line) ==
    /\ ndispatch < MaxDispatches
    /\ ndispatch' = ndispatch + 1
    /\ Commit(1, Run(State(Enter(PREFIX_COMMANDS, buffer_id, line))))
    /\ UNCHANGED PREFIX_COMMANDS

Next == \E buffer_id \in BufferIds, line \in Lines : Dispatch(buffer_id, line)

Spec == Init /\ [][Next]_vars

(* ---------------- dispatch calls that may interleave ------------------- *)

\* the lines typed while two calls are in flight
ConcLines ==
    {line_JOIN, line_join_general, line_join_h, line_help_join, line_help_bogus,
     line_part, line_disconnect, line_nick_bob, line_bogus}

\* a call enters dispatch and resolves its command
Start(p, buffer_id, line) ==
    /\ procs[p].status # "running"
    /\ ndispatch < MaxDispatches
    /\ ndispatch' = ndispatch + 1
    /\ procs' = [procs EXCEPT ![p] = Enter(PREFIX_COMMANDS, buffer_id, line)]
    /\ UNCHANGED <<PREFIX_COMMANDS, lines, calls, disconnected, ensured, servers, interfaces,
                   parserBuffer>>

\* a call in flight executes its next statement
Step(p) ==
    /\ procs[p].status = "running"
    /\ Commit(p, RunStep(State(procs[p])))
    /\ UNCHANGED <<PREFIX_COMMANDS, ndispatch>>

NextConc ==
    \E p \in Procs :
        \/ \E buffer_id \in BufferIds, line \in ConcLines : Start(p, buffer_id, line)
        \/ Step(p)

SpecConc == Init /\ [][NextConc]_vars

(* ------------- prefix resolution over arbitrary registries ------------ *)

cmd_jump == <<"j", "u", "m", "p">>
cmd_meow == <<"m", "e", "o", "w">>

\* the sets of command names build_prefix_map is applied to
Registries == (SUBSET {cmd_join, cmd_jump, cmd_me, cmd_meow, cmd_part}) \ {{}}

RegLines ==
    {<<"/", "j">>, <<"/", "J">>, <<"/", "j", "u">>, <<"/", "j", "o", "i", "n", " ", "#", "a">>,
     <<"/", "j", "u", "m", "p">>, <<"/", "m">>, <<"/", "m", "e", " ", "h", "i">>,
     <<"/", "m", "e", "o">>, <<"/", "p">>, <<"/", "x">>}

InitReg == (\E strings \in Registries : PREFIX_COMMANDS = build_prefix_map(strings)) /\ InitStore

NextReg == \E buffer_id \in BufferIds, line \in RegLines : Dispatch(buffer_id, line)

SpecReg == InitReg /\ [][NextReg]_vars

(* ------------------------- properties --------------------------------- *)

Range(s) == {s[k] : k \in 1..Len(s)}

\* the calls that have finished
Done == {p \in Procs : procs[p].status \in {"returned", "raised"}}

HasPrefixChar(line) == StartsWith(line, "/")

Fields(line) == SplitMax1(IF HasPrefixChar(line) THEN Tail(line) ELSE line)

\* the command token as typed; <<>> when the line has none
RawToken(line) == IF Fields(line) = <<>> THEN <<>> ELSE Fields(line)[1]

\* the text after the command token; empty when there is none
Remainder(line) == IF Len(Fields(line)) = 2 THEN Fields(line)[2] ELSE <<>>

\* x is the name c in some letter case
SameLetters(x, c) ==
    /\ Len(x) = Len(c)
    /\ \A i \in 1..Len(c) :
          x[i] = c[i] \/ (x[i] \in DOMAIN UpperToLower /\ UpperToLower[x[i]] = c[i])

\* the name occurs in the text formatted into a notice
Mentions(content, name) ==
    \E i \in 1..Len(content.arg) : IsPrefix(name, Drop(content.arg, i - 1))

\* the command names of the registry PREFIX_COMMANDS was built from
Registered == UNION {Range(PREFIX_COMMANDS[p]) : p \in DOMAIN PREFIX_COMMANDS}

ServerOf(p) == Buffers[procs[p].buf].server

\* no protocol action and no store change other than notice lines
NoEffectButNotices(p) ==
    procs[p].called = <<>> /\ procs[p].marked = {} /\ ~procs[p].mutated

\* message framed by separators, as notice lines of the buffer
Framed(buffer, message) ==
    <<Line(buffer, Separator)>>
    \o [k \in 1..Len(message) |-> Line(buffer, message[k])]
    \o <<Line(buffer, Separator)>>

\* C1: every dispatch call on an existing buffer returns normally; no fault
\* escapes to the caller (no collaborator fails in this model).
C1_DispatchReturnsNormally == \A p \in Procs : procs[p].status # "raised"

\* C2: a line with the command prefix whose lower-cased token is a prefix of
\* no registered command invokes no handler and creates exactly one notice
\* line, in the invoking buffer.
C2_UnknownCommandOneNotice ==
    \A p \in Done :
        (/\ HasPrefixChar(procs[p].line)
         /\ RawToken(procs[p].line) # <<>>
         /\ \A c \in COMMANDS : \A x \in DOMAIN c :
               ~SameLetters(RawToken(procs[p].line), SubSeq(c, 1, x)))
        => /\ procs[p].invoked = <<>>
           /\ Len(procs[p].created) = 1
           /\ procs[p].created[1].buffer = procs[p].buf

\* C3: a line that does not start with the command prefix is a no-op: no
\* handler is invoked, no notice line is created, no collaborator is called.
C3_NoPrefixIsNoOp ==
    \A p \in Done :
        ~HasPrefixChar(procs[p].line)
        => /\ procs[p].invoked = <<>>
           /\ procs[p].created = <<>>
           /\ NoEffectButNotices(p)

\* the token of a finished call is a common prefix of two registered names
AmbiguousToken(p, a, b) ==
    /\ a \in Registered /\ b \in Registered /\ a # b
    /\ RawToken(procs[p].line) # <<>>
    /\ \E n \in 1..Len(a) : SameLetters(RawToken(procs[p].line), SubSeq(a, 1, n))
    /\ \E n \in 1..Len(b) : SameLetters(RawToken(procs[p].line), SubSeq(b, 1, n))

\* the prefix index key the typed token of a finished call selects; <<>> if none
IndexKey(p) ==
    LET keys == {t \in DOMAIN PREFIX_COMMANDS : SameLetters(RawToken(procs[p].line), t)}
    IN IF keys = {} THEN <<>> ELSE CHOOSE t \in keys : TRUE

C5_DisconnectQuitsWithMessage ==
    \A p \in Done :
        (/\ procs[p].invoked = <<cmd_disconnect>>
         /\ procs[p].parse = "SUCCESS"
         /\ ServerOf(p) # NoServer)
        => /\ procs[p].created = <<Line(procs[p].buf, Content("*** DISCONNECTED ***", <<>>))>>
           /\ procs[p].marked = {ServerOf(p)}
           /\ procs[p].called =
                 <<[server |-> ServerOf(p), method |-> "quit",
                    args |-> <<Str(Remainder(procs[p].line))>>]>>

\* C6: disconnect on a system buffer creates the rejection notice line in
\* that buffer, issues no quit call, marks no server disconnected and returns
\* normally.
C6_DisconnectOnSystemBufferRejected ==
    \A p \in Done :
        (/\ procs[p].invoked = <<cmd_disconnect>>
         /\ procs[p].parse = "SUCCESS"
         /\ ServerOf(p) = NoServer)
        => /\ procs[p].status = "returned"
           /\ procs[p].created =
                 <<Line(procs[p].buf, Content("Can't disconnect from system buffer.", <<>>))>>
           /\ procs[p].called = <<>>
           /\ procs[p].marked = {}

\* C7: join with no channel argument on a server buffer is not a parse
\* failure: it issues a join call on that server's handle with the invoking
\* buffer's name as channel and password None.
C7_JoinDefaultsToBufferName ==
    \A p \in Done :
        (/\ procs[p].invoked = <<cmd_join>>
         /\ Remainder(procs[p].line) = <<>>
         /\ ServerOf(p) # NoServer)
        => /\ procs[p].parse = "SUCCESS"
           /\ procs[p].called =
                 <<[server |-> ServerOf(p), method |-> "join",
                    args |-> <<Str(Buffers[procs[p].buf].name), None>>]>>

\* C8: for a command whose handler is wrapped by a parser, the handler body,
\* and with it any protocol action or store change other than notice lines,
\* runs only when parsing ends in SUCCESS; when parsing ends in FAILED or
\* HELP_SHOWN the body does not run, the call returns, and the usage text
\* (FAILED) or help text (HELP_SHOWN) of that command's parser is created as
\* system notice lines in the invoking buffer.
C8_BodyOnlyOnSuccess ==
    \A p \in Done : \A h \in Decorated :
        procs[p].invoked = <<h>>
        => /\ procs[p].parse \in {"SUCCESS", "FAILED", "HELP_SHOWN"}
           /\ procs[p].bodies # <<>> => procs[p].parse = "SUCCESS"
           /\ ~NoEffectButNotices(p) => procs[p].parse = "SUCCESS"
           /\ procs[p].parse # "SUCCESS" =>
                 /\ procs[p].status = "returned"
                 /\ procs[p].bodies = <<>>
                 /\ NoEffectButNotices(p)
                 /\ procs[p].created =
                       Framed(procs[p].buf,
                              IF procs[p].parse = "FAILED"
                              THEN UsageMessage(Parsers[ParserOf(h)])
                              ELSE HelpMessage(Parsers[ParserOf(h)]))
                 /\ \A k \in 1..Len(procs[p].created) : procs[p].created[k].nick = SYSNICK

C8_Witness ==
    /\ 1 \in Done
    /\ procs[1].invoked = <<cmd_help>>
    /\ procs[1].parse = "FAILED"
    /\ procs[1].bodies = <<>>
    /\ Len(procs[1].created) = 3
    /\ procs[1].buf = 3

\* C9: a line whose command token is a registered command name c in any
\* letter case resolves to the singleton entry <<c>> of the prefix index and
\* invokes the handler of c and no other handler.
C9_FullNameResolvesUniquely ==
    \A p \in Done : \A c \in COMMANDS :
        SameLetters(RawToken(procs[p].line), c)
        => /\ PREFIX_COMMANDS[c] = <<c>>
           /\ procs[p].invoked = <<c>>

C9_Witness ==
    /\ 1 \in Done
    /\ RawToken(procs[1].line) = <<"J", "O", "I", "N">>
    /\ procs[1].invoked = <<cmd_join>>

\* C10: when dispatch calls interleave, every notice line produced by a call
\* is created in that call's own invoking buffer.
C10_NoticesInOwnBuffer ==
    \A p \in Procs : \A k \in 1..Len(procs[p].created) :
        procs[p].created[k].buffer = procs[p].buf
====
